---- MODULE Spec2Model ----
(***************************************************************************)
(* Model of kamodo_ccmc/readers/verb3d_tocdf.py: get_start_date and        *)
(* convert_all, the VERB-3D output converter.                              *)
(*                                                                         *)
(* The directory contents (which files exist, what the loaders return) are *)
(* the inputs, held in env and never changed.  Every other variable is a   *)
(* local of the two functions or the state of the output directory.        *)
(* Timestamps are <<year, month, day, hour, minute>>; zone values are      *)
(* simulation days, modelled as integers.                                  *)
(***************************************************************************)
EXTENDS Integers, Sequences, FiniteSets, TLC

VARIABLES
    env,              \* the input directory: files present and what the loaders return
    caller,           \* "convert_all" or "get_start_date": the function that was called
    pc,               \* position in the running function
    result,           \* "running", "True", "False", "returned" or "raised"
    error,            \* the exception that ended the run, "" when none
    date_start,       \* get_start_date: local date_start
    line_no,          \* get_start_date: index of the next DatabaseInfo1 line
    start_date,       \* convert_all: local start_date
    t,                \* convert_all: loop index over psd_size[0]
    created,          \* Dataset(..., 'w') calls so far, in order: the file names
    units,            \* the output directory: file name -> [state, vars, time]
    nc_psd_files,     \* convert_all: local list
    nc_psdlmk_files,  \* convert_all: local list
    grid_file,        \* convert_all: local list
    out1d_files,      \* convert_all: local list
    pattern_files,    \* convert_all: local dict group -> file list
    times,            \* convert_all: local dict group -> start/end/all
    calls             \* invocations of RU.create_timelist, in order

vars == <<env, caller, pc, result, error, date_start, line_no, start_date, t,
          created, units, nc_psd_files, nc_psdlmk_files, grid_file, out1d_files,
          pattern_files, times, calls>>

gsdVars  == <<date_start, line_no>>
listVars == <<nc_psd_files, nc_psdlmk_files, grid_file, out1d_files>>
diskVars == <<created, units>>
catVars  == <<pattern_files, times, calls>>

(***************************************************************************)
(* Bounds of the model.                                                    *)
(***************************************************************************)
MaxLines == 2      \* lines of DatabaseInfo1 when get_start_date is called directly
MaxT     == 2      \* largest psd['arr'].shape[0]
MaxZone  == 3      \* largest len(psd['zone'])

(***************************************************************************)
(* Timestamps.                                                             *)
(***************************************************************************)
NoDate == <<0, 0, 0, 0, 0>>

\* datetime(1970, 1, 1)
DefaultDate == <<1970, 1, 1, 0, 0>>

IsLeap(y) == (y % 4 = 0 /\ y % 100 # 0) \/ y % 400 = 0

DaysInMonth(y, m) ==
    IF m = 2 THEN (IF IsLeap(y) THEN 29 ELSE 28)
    ELSE IF m \in {4, 6, 9, 11} THEN 30 ELSE 31

\* the regex r'(\d{4}/\d{2}/\d{2} \d{2}:\d{2})\s+# start_time' finds a match:
\* the digit layout is there and the marker follows it
PatternMatches(line) ==
    /\ line.marker
    /\ line.digits[1] \in 0..9999
    /\ \A i \in 2..5 : line.digits[i] \in 0..99

\* datetime.strptime(date_str, '%Y/%m/%d %H:%M') accepts the digits
StrptimeAccepts(d) ==
    /\ d[1] >= 1
    /\ d[2] \in 1..12
    /\ d[3] >= 1 /\ d[3] <= DaysInMonth(d[1], d[2])
    /\ d[4] \in 0..23
    /\ d[5] \in 0..59

\* datetime.fromisoformat accepts the same calendar range
FromIsoAccepts(d) == StrptimeAccepts(d)

(***************************************************************************)
(* The inputs.                                                             *)
(***************************************************************************)
RequiredFiles == {"perp_grid.plt", "OutPSD.dat", "out1d.dat"}

\* lines a DatabaseInfo1 file may hold
LegacyLines ==
    { [digits |-> <<2015, 3, 17, 6, 0>>,  marker |-> TRUE],
      [digits |-> <<2016, 2, 29, 23, 59>>, marker |-> TRUE],
      [digits |-> <<2015, 13, 17, 6, 0>>, marker |-> TRUE],    \* month 13
      [digits |-> <<2015, 3, 17, 99, 0>>, marker |-> TRUE],    \* hour 99
      [digits |-> <<2014, 1, 1, 0, 0>>,   marker |-> FALSE] }  \* no '# start_time'

SeqsUpTo(S, n) == UNION { [1..k -> S] : k \in 0..n }

NoLegacy == [present |-> FALSE, lines |-> <<>>]

LegacyFiles(n) == {NoLegacy} \cup { [present |-> TRUE, lines |-> l] : l \in SeqsUpTo(LegacyLines, n) }

\* a ror_metadata.json: absent, not JSON, or JSON whose simulationStartTime is
\* missing, the empty string, an ISO timestamp, or a string that is no ISO timestamp
NoMeta == [kind |-> "absent", field |-> "missing", value |-> NoDate]

MetaFiles ==
    { NoMeta,
      [kind |-> "corrupt", field |-> "missing", value |-> NoDate],
      [kind |-> "json", field |-> "missing", value |-> NoDate],
      [kind |-> "json", field |-> "empty", value |-> NoDate],
      [kind |-> "json", field |-> "iso", value |-> <<2020, 5, 6, 7, 8>>],
      [kind |-> "json", field |-> "iso", value |-> <<2021, 9, 10, 11, 12>>],
      [kind |-> "json", field |-> "iso", value |-> <<2020, 2, 30, 0, 0>>] }

NoArg == [given |-> FALSE, value |-> NoDate]

\* what convert_all is called with: start_date=None or a datetime
StartDateArgs == { NoArg, [given |-> TRUE, value |-> <<2000, 1, 1, 0, 0>>] }

\* shapes of the squeezed grid arrays and of psd['arr'][t]
GridShapes == { <<2, 2, 2>>, <<2, 3, 2>> }
PsdShapes  == { <<2, 2, 2>>, <<2, 3, 2>>, <<3, 2, 2>> }

\* values of psd['zone'], in simulation days
ZoneValues == {1, 2}

\* the metadata inputs drawn when convert_all is the entry point
ConvLegacyFiles ==
    { NoLegacy,
      [present |-> TRUE, lines |-> << [digits |-> <<2015, 3, 17, 6, 0>>, marker |-> TRUE] >>],
      [present |-> TRUE, lines |-> << [digits |-> <<2015, 13, 17, 6, 0>>, marker |-> TRUE] >>] }
ConvMetaFiles == { NoMeta, [kind |-> "json", field |-> "iso", value |-> <<2020, 5, 6, 7, 8>>] }

Env(ex, arg, gs, ps, nT, z, hdr, leg, md, mp) ==
    [ exists     |-> ex,      \* RU._isfile of each required file
      start_arg  |-> arg,     \* the start_date argument
      grid_shape |-> gs,      \* grid[0]['arr'].shape
      psd_shape  |-> ps,      \* psd['arr'].shape[1:]
      psd_len    |-> nT,      \* psd['arr'].shape[0]
      zone       |-> z,       \* psd['zone']
      header     |-> hdr,     \* out1d.dat has a line starting with "Variables"
      legacy     |-> leg,     \* ../DatabaseInfo1
      meta_dir   |-> md,      \* ror_metadata.json
      meta_parent |-> mp ]    \* ../ror_metadata.json

NoFiles == [g \in {} |-> <<>>]

InitLocals ==
    /\ result = "running"
    /\ error = ""
    /\ date_start = NoDate
    /\ line_no = 0
    /\ start_date = NoDate
    /\ t = 0
    /\ created = <<>>
    /\ units = NoFiles
    /\ nc_psd_files = <<>>
    /\ nc_psdlmk_files = <<>>
    /\ grid_file = <<>>
    /\ out1d_files = <<>>
    /\ pattern_files = NoFiles
    /\ times = NoFiles
    /\ calls = <<>>

\* convert_all(file_dir, start_date) is called on some directory
Init ==
    /\ \E ex \in [RequiredFiles -> BOOLEAN], arg \in StartDateArgs,
          gs \in GridShapes, ps \in PsdShapes, nT \in 0..MaxT,
          z \in SeqsUpTo(ZoneValues, MaxZone), hdr \in BOOLEAN,
          leg \in ConvLegacyFiles, md \in ConvMetaFiles :
            /\ arg.given => (leg = NoLegacy /\ md = NoMeta)   \* not read when given
            /\ env = Env(ex, arg, gs, ps, nT, z, hdr, leg, md, NoMeta)
    /\ caller = "convert_all"
    /\ pc = "start"
    /\ InitLocals

\* get_start_date(file_dir) is called on some directory
InitDate ==
    /\ \E leg \in LegacyFiles(MaxLines), md \in MetaFiles, mp \in MetaFiles :
            env = Env([f \in RequiredFiles |-> TRUE], NoArg, <<2, 2, 2>>, <<2, 2, 2>>,
                      0, <<>>, TRUE, leg, md, mp)
    /\ caller = "get_start_date"
    /\ pc = "gsd_start"
    /\ InitLocals

(***************************************************************************)
(* get_start_date                                                          *)
(***************************************************************************)
\* an exception leaves the running function: no file is open at these points
Raise(e) ==
    /\ pc' = "done"
    /\ result' = "raised"
    /\ error' = e

\* lines 28-38: the default, then RU._isfile(database_filename)
GsdCheckLegacy ==
    /\ pc = "gsd_start"
    /\ date_start' = DefaultDate
    /\ line_no' = 1
    /\ pc' = IF env.legacy.present /\ env.legacy.lines # <<>> THEN "gsd_scan" ELSE "gsd_meta"
    /\ UNCHANGED <<env, caller, result, error, start_date, t, diskVars, listVars, catVars>>

\* lines 42-43 on a line the pattern matched: the date the line sets, or
\* NoDate when strptime raises ValueError
ParseLegacy(line) ==
    IF StrptimeAccepts(line.digits) THEN line.digits ELSE NoDate

\* lines 39-43: one iteration of 'for line in file'
GsdScanLine ==
    /\ pc = "gsd_scan"
    /\ LET line == env.legacy.lines[line_no]
           last == line_no = Len(env.legacy.lines)
       IN  IF PatternMatches(line) /\ ParseLegacy(line) = NoDate
           THEN /\ Raise("ValueError: strptime")
                /\ UNCHANGED <<date_start, line_no>>
           ELSE /\ date_start' = IF PatternMatches(line) THEN ParseLegacy(line)
                                 ELSE date_start
                /\ line_no' = line_no + 1
                /\ pc' = IF last THEN "gsd_meta" ELSE "gsd_scan"
                /\ UNCHANGED <<result, error>>
    /\ UNCHANGED <<env, caller, start_date, t, diskVars, listVars, catVars>>

\* the two paths listed in the other order
MetadataFileParentFirst ==
    IF env.meta_parent.kind # "absent" THEN env.meta_parent
    ELSE IF env.meta_dir.kind # "absent" THEN env.meta_dir
    ELSE NoMeta

\* lines 46-52: the first of the two paths that is a file, NoMeta when neither is
MetadataFile ==
    IF env.meta_dir.kind # "absent" THEN env.meta_dir
    ELSE IF env.meta_parent.kind # "absent" THEN env.meta_parent
    ELSE NoMeta

\* lines 54-65: load the metadata file, if any, and take its simulationStartTime
GsdLoadMetadata ==
    /\ pc = "gsd_meta"
    /\ LET m == MetadataFile
       IN  IF m.kind = "corrupt"
           THEN Raise("JSONDecodeError") /\ UNCHANGED date_start
           ELSE IF m.kind = "json" /\ m.field = "iso" /\ ~FromIsoAccepts(m.value)
           THEN Raise("ValueError: fromisoformat") /\ UNCHANGED date_start
           ELSE /\ date_start' = IF m.kind = "json" /\ m.field = "iso" THEN m.value
                                 ELSE date_start
                /\ pc' = "gsd_return"
                /\ UNCHANGED <<result, error>>
    /\ UNCHANGED <<env, caller, line_no, start_date, t, diskVars, listVars, catVars>>

\* line 67, and line 101 when convert_all made the call
GsdReturn ==
    /\ pc = "gsd_return"
    /\ IF caller = "get_start_date"
       THEN /\ pc' = "done"
            /\ result' = "returned"
            /\ UNCHANGED start_date
       ELSE /\ pc' = "grid_open"
            /\ start_date' = date_start
            /\ UNCHANGED result
    /\ UNCHANGED <<env, caller, error, gsdVars, t, diskVars, listVars, catVars>>

NextDate == GsdCheckLegacy \/ GsdScanLine \/ GsdLoadMetadata \/ GsdReturn

SpecDate == InitDate /\ [][NextDate]_vars

(***************************************************************************)
(* convert_all                                                             *)
(***************************************************************************)
\* a guard that forgets out1d.dat
RequiredPresentTwo == env.exists["perp_grid.plt"] /\ env.exists["OutPSD.dat"]

\* line 96: all three required files are there
RequiredPresent == \A f \in RequiredFiles : env.exists[f]

\* the names os.path.join(file_dir, ...) gives the output files: 'perp_grid.nc',
\* 'out1d.nc' (nothing after the stem) and f'OutPSD_Flux{i}.nc', f'OutPSD_lmk{i}.nc'
GridName     == [stem |-> "perp_grid", idx |-> <<>>]
Out1dName    == [stem |-> "out1d", idx |-> <<>>]
FluxName(i)  == [stem |-> "OutPSD_Flux", idx |-> <<i>>]
LmkName(i)   == [stem |-> "OutPSD_lmk", idx |-> <<i>>]

\* the data of a file's 'time' variable before it is assigned
NoTime == <<>>

\* Dataset(name, 'w'): the file is created, or truncated, and is open
OpenedUnit == [state |-> "open", vars |-> {}, time |-> NoTime]

Opened(name) ==
    /\ created' = Append(created, name)
    /\ units' = (name :> OpenedUnit) @@ units

\* the Dataset objects open at the moment
OpenUnits == { n \in DOMAIN units : units[n].state = "open" }

\* variables are created and assigned in the file the 'with' block holds
Written(name, names, tm) ==
    units' = [units EXCEPT ![name] = [state |-> "open",
                                      vars |-> @.vars \cup names,
                                      time |-> tm]]

\* Dataset.__exit__: the file the 'with' block holds is closed
Closed(name) ==
    units' = [units EXCEPT ![name].state = "closed"]

\* lines 95-97
CheckFiles ==
    /\ pc = "start"
    /\ IF RequiredPresent
       THEN pc' = "get_date" /\ UNCHANGED result
       ELSE pc' = "done" /\ result' = "False"
    /\ UNCHANGED <<env, caller, error, gsdVars, start_date, t, diskVars, listVars, catVars>>

\* lines 100-101: 'if not start_date' calls get_start_date
GetDate ==
    /\ pc = "get_date"
    /\ IF env.start_arg.given
       THEN pc' = "grid_open" /\ start_date' = env.start_arg.value
       ELSE pc' = "gsd_start" /\ UNCHANGED start_date
    /\ UNCHANGED <<env, caller, result, error, gsdVars, t, diskVars, listVars, catVars>>

\* lines 104-123: the grid is loaded, Mu and K computed, perp_grid.nc opened
GridOpen ==
    /\ pc = "grid_open"
    /\ grid_file' = <<GridName>>
    /\ Opened(GridName)
    /\ pc' = "grid_write"
    /\ UNCHANGED <<env, caller, result, error, gsdVars, start_date, t,
                   nc_psd_files, nc_psdlmk_files, out1d_files, catVars>>

\* lines 106-117: the keys of data
GridVariables == {"L", "E", "Alpha", "pc", "Mu", "K"}

\* lines 124-131
GridWrite ==
    /\ pc = "grid_write"
    /\ Written(GridName, GridVariables, NoTime)
    /\ pc' = "grid_close"
    /\ UNCHANGED <<env, caller, result, error, gsdVars, start_date, t, created,
                   listVars, catVars>>

\* the end of the 'with' block of line 123, then lines 134-142
GridClose ==
    /\ pc = "grid_close"
    /\ Closed(GridName)
    /\ nc_psd_files' = <<>>
    /\ nc_psdlmk_files' = <<>>
    /\ t' = 0
    /\ pc' = "loop"
    /\ UNCHANGED <<env, caller, result, error, gsdVars, start_date, created,
                   grid_file, out1d_files, catVars>>

\* line 136: time[i], for i from 0, is defined
TimeDefined(i) == i < Len(env.zone)
Time(i) == <<env.zone[i + 1]>>

Max(a, b) == IF a >= b THEN a ELSE b

\* line 161: psd['arr'][t] * reshaped_pc ** 2 broadcasts, and the product has the
\* shape of the variable it is assigned to
FluxAssignable ==
    \A i \in 1..3 :
        /\ env.psd_shape[i] = env.grid_shape[i] \/ env.psd_shape[i] = 1 \/ env.grid_shape[i] = 1
        /\ Max(env.psd_shape[i], env.grid_shape[i]) = env.psd_shape[i]

\* line 144: the loop runs while t is in range(psd_size[0])
InRange(i) == i < env.psd_len

\* lines 147-149
FluxOpen ==
    /\ pc = "loop"
    /\ InRange(t)
    /\ nc_psd_files' = Append(nc_psd_files, FluxName(t))
    /\ Opened(FluxName(t))
    /\ pc' = "flux_write"
    /\ UNCHANGED <<env, caller, result, error, gsdVars, start_date, t,
                   nc_psdlmk_files, grid_file, out1d_files, catVars>>

\* an exception inside a 'with' block: the block is left, its file still to be closed
Throw(e) ==
    /\ pc' = "unwind"
    /\ error' = e

\* lines 151-165: PSD is written; Flux fails when the shapes do not fit; time
\* fails when zone is shorter than the array
FluxWrite ==
    /\ pc = "flux_write"
    /\ IF ~FluxAssignable
       THEN /\ Written(FluxName(t), {"PSD"}, NoTime)
            /\ Throw("ValueError: broadcast")
       ELSE IF ~TimeDefined(t)
       THEN /\ Written(FluxName(t), {"PSD", "Flux"}, NoTime)
            /\ Throw("IndexError: time")
       ELSE /\ Written(FluxName(t), {"PSD", "Flux", "time"}, Time(t))
            /\ pc' = "flux_close"
            /\ UNCHANGED error
    /\ UNCHANGED <<env, caller, result, gsdVars, start_date, t, created,
                   listVars, catVars>>

\* the file the running 'with' block holds: the blocks do not nest, so it is
\* the file opened last
Held == created[Len(created)]

\* a Dataset opened without 'with': the exception leaves convert_all, the file open
WithExitLeak ==
    /\ pc = "unwind"
    /\ pc' = "done"
    /\ result' = "raised"
    /\ UNCHANGED <<env, caller, error, gsdVars, start_date, t, diskVars,
                   listVars, catVars>>

\* the exception leaves the 'with' block, which closes its file, and then convert_all
WithExit ==
    /\ pc = "unwind"
    /\ Closed(Held)
    /\ pc' = "done"
    /\ result' = "raised"
    /\ UNCHANGED <<env, caller, error, gsdVars, start_date, t, created,
                   listVars, catVars>>

\* the end of the 'with' block of line 149
FluxClose ==
    /\ pc = "flux_close"
    /\ Closed(FluxName(t))
    /\ pc' = "lmk_open"
    /\ UNCHANGED <<env, caller, result, error, gsdVars, start_date, t, created,
                   listVars, catVars>>

\* lines 168-170
LmkOpen ==
    /\ pc = "lmk_open"
    /\ nc_psdlmk_files' = Append(nc_psdlmk_files, LmkName(t))
    /\ Opened(LmkName(t))
    /\ pc' = "lmk_write"
    /\ UNCHANGED <<env, caller, result, error, gsdVars, start_date, t,
                   nc_psd_files, grid_file, out1d_files, catVars>>

\* lines 172-182
LmkWrite ==
    /\ pc = "lmk_write"
    /\ IF ~TimeDefined(t)
       THEN /\ Written(LmkName(t), {"PSD_2"}, NoTime)
            /\ Throw("IndexError: time")
       ELSE /\ Written(LmkName(t), {"PSD_2", "time"}, Time(t))
            /\ pc' = "lmk_close"
            /\ UNCHANGED error
    /\ UNCHANGED <<env, caller, result, gsdVars, start_date, t, created,
                   listVars, catVars>>

\* the end of the 'with' block of line 170 and of the loop body
LmkClose ==
    /\ pc = "lmk_close"
    /\ Closed(LmkName(t))
    /\ t' = t + 1
    /\ pc' = "loop"
    /\ UNCHANGED <<env, caller, result, error, gsdVars, start_date, created,
                   listVars, catVars>>

\* lines 185-198: out1d.dat is read; 'variables' is bound only if a line starts
\* with "Variables"
Load1d ==
    /\ pc = "loop"
    /\ ~InRange(t)
    /\ IF env.header
       THEN pc' = "out1d_open" /\ UNCHANGED <<result, error>>
       ELSE Raise("NameError: variables")
    /\ UNCHANGED <<env, caller, gsdVars, start_date, t, diskVars, listVars, catVars>>

\* lines 201-203
Out1dOpen ==
    /\ pc = "out1d_open"
    /\ out1d_files' = <<Out1dName>>
    /\ Opened(Out1dName)
    /\ pc' = "out1d_write"
    /\ UNCHANGED <<env, caller, result, error, gsdVars, start_date, t,
                   nc_psd_files, nc_psdlmk_files, grid_file, catVars>>

\* lines 205-209
Out1dWrite ==
    /\ pc = "out1d_write"
    /\ Written(Out1dName, {"columns"}, NoTime)
    /\ pc' = "out1d_close"
    /\ UNCHANGED <<env, caller, result, error, gsdVars, start_date, t, created,
                   listVars, catVars>>

\* a return right after out1d.nc, the catalog step left out
Out1dCloseSkipCatalog ==
    /\ pc = "out1d_close"
    /\ units' = [units EXCEPT ![Out1dName].state = "closed"]
    /\ pc' = "return"
    /\ UNCHANGED <<env, caller, result, error, gsdVars, start_date, t, created,
                   listVars, catVars>>

\* the end of the 'with' block of line 203
Out1dClose ==
    /\ pc = "out1d_close"
    /\ Closed(Out1dName)
    /\ pc' = "catalog"
    /\ UNCHANGED <<env, caller, result, error, gsdVars, start_date, t, created,
                   listVars, catVars>>

HoursPerDay == 24

\* the times left in days
TimesListDays == [i \in 1..Len(env.zone) |-> env.zone[i]]

\* line 218: list(time * 24)
TimesList == [i \in 1..Len(env.zone) |-> env.zone[i] * HoursPerDay]

\* line 216
PatternFiles ==
    [g \in {"OutPSD_Flux", "OutPSD_lmk", "perp_grid", "out1d"} |->
        CASE g = "OutPSD_Flux" -> nc_psd_files
          [] g = "OutPSD_lmk"  -> nc_psdlmk_files
          [] g = "perp_grid"   -> grid_file
          [] g = "out1d"       -> out1d_files]

Coverage(s, e, a) == [start |-> s, end |-> e, all |-> a]

\* lines 223-224
StepCoverage(tl) == Coverage(tl, tl, tl)
\* line 225
GridCoverage(tl) == Coverage(<<tl[1]>>, <<tl[Len(tl)]>>, <<tl[1]>>)
\* 'end' taken from the first time
Out1dCoverageFirstEnd(tl) == Coverage(<<tl[1]>>, <<tl[1]>>, tl)

\* line 226
Out1dCoverage(tl) == Coverage(<<tl[1]>>, <<tl[Len(tl)]>>, tl)

\* lines 211-226: times_list[0] raises IndexError on an empty list
BuildCatalog ==
    /\ pc = "catalog"
    /\ pattern_files' = PatternFiles
    /\ IF TimesList = <<>>
       THEN Raise("IndexError: times_list") /\ UNCHANGED times
       ELSE /\ times' = [g \in {"OutPSD_Flux", "OutPSD_lmk", "perp_grid", "out1d"} |->
                            CASE g = "OutPSD_Flux" -> StepCoverage(TimesList)
                              [] g = "OutPSD_lmk"  -> StepCoverage(TimesList)
                              [] g = "perp_grid"   -> GridCoverage(TimesList)
                              [] g = "out1d"       -> Out1dCoverage(TimesList)]
            /\ pc' = "create_timelist"
            /\ UNCHANGED <<result, error>>
    /\ UNCHANGED <<env, caller, gsdVars, start_date, t, diskVars, listVars, calls>>

\* lines 228-230
CreateTimelist ==
    /\ pc = "create_timelist"
    /\ calls' = Append(calls, [times |-> times, pattern_files |-> pattern_files,
                               start_date |-> start_date])
    /\ pc' = "return"
    /\ UNCHANGED <<env, caller, result, error, gsdVars, start_date, t, diskVars,
                   listVars, pattern_files, times>>

\* line 232
ReturnTrue ==
    /\ pc = "return"
    /\ result' = "True"
    /\ pc' = "done"
    /\ UNCHANGED <<env, caller, error, gsdVars, start_date, t, diskVars, listVars, catVars>>

Next ==
    \/ CheckFiles \/ GetDate
    \/ GsdCheckLegacy \/ GsdScanLine \/ GsdLoadMetadata \/ GsdReturn
    \/ GridOpen \/ GridWrite \/ GridClose
    \/ FluxOpen \/ FluxWrite \/ FluxClose
    \/ LmkOpen \/ LmkWrite \/ LmkClose
    \/ WithExit
    \/ Load1d \/ Out1dOpen \/ Out1dWrite \/ Out1dClose
    \/ BuildCatalog \/ CreateTimelist \/ ReturnTrue

Spec == Init /\ [][Next]_vars

(***************************************************************************)
(* Properties                                                              *)
(***************************************************************************)
Groups == {"OutPSD_Flux", "OutPSD_lmk", "perp_grid", "out1d"}
StepGroups == {"OutPSD_Flux", "OutPSD_lmk"}
WholeRunGroups == {"perp_grid", "out1d"}

SomeRequiredMissing == \E f \in RequiredFiles : ~env.exists[f]

\* C1: when one of perp_grid.plt, OutPSD.dat, out1d.dat is absent, convert_all
\* returns False, having created no output file and not called the catalog writer.
C1_MissingInputGuard ==
    (SomeRequiredMissing /\ pc # "start") =>
        /\ result = "False"
        /\ created = <<>>
        /\ DOMAIN units = {}
        /\ calls = <<>>

C1_Witness ==
    /\ ~env.exists["out1d.dat"] /\ env.exists["perp_grid.plt"] /\ env.exists["OutPSD.dat"]
    /\ pc = "done"
    /\ result = "False"

\* the output files of one stem created so far
CreatedWithStem(stem) == { i \in 1..Len(created) : created[i].stem = stem }

Places(list, name) == { i \in 1..Len(list) : list[i] = name }

\* the place of a file in the order of creation
CreatedAt(name) == CHOOSE i \in 1..Len(created) : created[i] = name

\* C4: when the catalog writer is called, every output file created in the run is
\* once in the list of its own group and in no other list, each list is in the
\* order of creation, and the i-th file of a per-timestep group is paired with
\* the i-th timestamp, the time stored in that file times 24.
C4_CatalogFileLists ==
    \A c \in 1..Len(calls) :
        LET files == calls[c].pattern_files
            tms   == calls[c].times
        IN  /\ \A i \in 1..Len(created) :
                  \A g \in Groups :
                      Cardinality(Places(files[g], created[i])) =
                          IF g = created[i].stem THEN 1 ELSE 0
            /\ \A g \in Groups : \A i \in 1..Len(files[g]) :
                  \E k \in 1..Len(created) : created[k] = files[g][i]
            /\ \A g \in Groups : \A i, j \in 1..Len(files[g]) :
                  i < j => CreatedAt(files[g][i]) < CreatedAt(files[g][j])
            /\ \A g \in StepGroups : \A i \in 1..Len(files[g]) :
                  /\ i <= Len(tms[g].all)
                  /\ units[files[g][i]].time = <<env.zone[i]>>
                  /\ tms[g].all[i] = units[files[g][i]].time[1] * 24
                  /\ tms[g].start[i] = tms[g].all[i]
                  /\ tms[g].end[i] = tms[g].all[i]

C4_Witness ==
    /\ calls # <<>>
    /\ Len(calls[1].pattern_files["OutPSD_Flux"]) = 2
    /\ Len(calls[1].pattern_files["OutPSD_lmk"]) = 2
    /\ env.zone[1] # env.zone[2]
    /\ result = "True"

\* the lines of DatabaseInfo1 that carry a start_time
StartTimeLines ==
    { i \in 1..Len(env.legacy.lines) :
        env.legacy.lines[i].marker }

LastStartTime ==
    env.legacy.lines[CHOOSE i \in StartTimeLines : \A j \in StartTimeLines : j <= i].digits

LegacySupplies == env.legacy.present /\ StartTimeLines # {}

HasValue(m) == m.kind = "json" /\ m.field = "iso"

\* C5: get_start_date returns the structured simulationStartTime when a
\* ror_metadata.json supplies one, the file of the target directory before the
\* one of its parent; else the start_time of DatabaseInfo1 when that file
\* supplies one; else 1970-01-01T00:00.
C5_StartDatePrecedence ==
    result = "returned" =>
        LET m == IF env.meta_dir.kind # "absent" THEN env.meta_dir ELSE env.meta_parent
        IN  IF HasValue(m) THEN date_start = m.value
            ELSE IF LegacySupplies THEN date_start = LastStartTime
            ELSE date_start = <<1970, 1, 1, 0, 0>>

C5_Witness ==
    /\ result = "returned"
    /\ LegacySupplies
    /\ HasValue(env.meta_dir) /\ HasValue(env.meta_parent)
    /\ env.meta_dir.value # env.meta_parent.value
    /\ date_start = env.meta_dir.value

\* the DatabaseInfo1 line being scanned has the digit layout and the marker, and
\* is no calendar date or time
AtMalformedLine ==
    /\ pc = "gsd_scan"
    /\ env.legacy.lines[line_no].marker
    /\ LET d == env.legacy.lines[line_no].digits
       IN  d[2] \notin 1..12 \/ d[4] \notin 0..23

\* C6: a malformed start_time line of DatabaseInfo1 never makes get_start_date
\* raise: the line is skipped, the scan goes on to the next line, and the date
\* resolved so far is kept.
C6_MalformedLineSkipped ==
    [][AtMalformedLine =>
          /\ result' # "raised"
          /\ date_start' = date_start
          /\ line_no' = line_no + 1]_vars

\* the variables a file holds once its 'with' block has run to its end
FullVars(stem) ==
    CASE stem = "perp_grid"   -> {"L", "E", "Alpha", "pc", "Mu", "K"}
      [] stem = "OutPSD_Flux" -> {"PSD", "Flux", "time"}
      [] stem = "OutPSD_lmk"  -> {"PSD_2", "time"}
      [] stem = "out1d"       -> {"columns"}

\* C7: at most one output file is open at any time; a file is opened only when
\* every earlier one is closed, and is closed fully populated unless an error
\* cut it short; a closed file is never reopened or changed; and no file is open
\* once convert_all has returned or raised.
C7_ScopedResource ==
    /\ [](Cardinality(OpenUnits) <= 1)
    /\ [](result # "running" => OpenUnits = {})
    /\ [](\A i, j \in 1..Len(created) : created[i] = created[j] => i = j)
    /\ [](\A n \in DOMAIN units :
            (units[n].state = "closed" /\ error = "") => units[n].vars = FullVars(n.stem))
    /\ [][/\ \A n \in DOMAIN units :
                units[n].state = "closed" => (n \in DOMAIN units' /\ units'[n] = units[n])
          /\ Len(created') > Len(created) => OpenUnits = {}]_vars

C7_Witness ==
    /\ result = "raised"
    /\ error = "ValueError: broadcast"
    /\ Len(created) = 2
    /\ units[created[2]].state = "closed"
    /\ units[created[2]].vars = {"PSD"}

\* C8: when psd['arr'].shape[1:] differs from the grid's shape, convert_all ends
\* with an error, not True, and writes no per-timestep file and no catalog.
C8_ShapeMismatchFailsFast ==
    env.psd_shape # env.grid_shape =>
        /\ result # "True"
        /\ CreatedWithStem("OutPSD_Flux") = {}
        /\ CreatedWithStem("OutPSD_lmk") = {}
        /\ calls = <<>>

\* C9: with T the PSD times in hours (zone * 24), the catalog writer is given
\* perp_grid: start = [T[0]], end = [T[last]], all = [T[0]]; out1d: start =
\* [T[0]], end = [T[last]], all = T; per-timestep groups: start = end = all = T.
C9_TimeCoverage ==
    \A c \in 1..Len(calls) :
        LET T   == [i \in 1..Len(env.zone) |-> env.zone[i] * 24]
            tms == calls[c].times
        IN  /\ T # <<>>
            /\ tms["perp_grid"] = [start |-> <<T[1]>>, end |-> <<T[Len(T)]>>, all |-> <<T[1]>>]
            /\ tms["out1d"] = [start |-> <<T[1]>>, end |-> <<T[Len(T)]>>, all |-> T]
            /\ \A g \in StepGroups : tms[g] = [start |-> T, end |-> T, all |-> T]

C9_Witness ==
    /\ calls # <<>>
    /\ Len(env.zone) = 3
    /\ env.zone[1] # env.zone[3]
    /\ calls[1].times["out1d"].end # calls[1].times["out1d"].start

\* a file is there, holds all its variables and is closed
WrittenAndClosed(name) ==
    /\ name \in DOMAIN units
    /\ units[name].state = "closed"
    /\ units[name].vars = FullVars(name.stem)

\* every output file of a complete run is written and closed
AllUnitsClosed ==
    /\ OpenUnits = {}
    /\ WrittenAndClosed([stem |-> "perp_grid", idx |-> <<>>])
    /\ WrittenAndClosed([stem |-> "out1d", idx |-> <<>>])
    /\ \A i \in 0..(env.psd_len - 1) :
          /\ WrittenAndClosed([stem |-> "OutPSD_Flux", idx |-> <<i>>])
          /\ WrittenAndClosed([stem |-> "OutPSD_lmk", idx |-> <<i>>])

\* C10: RU.create_timelist is called at most once in a run, and only after the
\* grid file, every per-timestep file and out1d.nc are written and closed;
\* convert_all returns True only after that call; a run that returns False or
\* raises before that point never calls it.
C10_CatalogOrdering ==
    /\ Len(calls) <= 1
    /\ calls # <<>> => AllUnitsClosed
    /\ result = "True" => Len(calls) = 1
    /\ result \in {"False", "raised"} => calls = <<>>

C10_Witness ==
    /\ result = "True"
    /\ Len(calls) = 1
    /\ env.psd_len = 2
====
